---------------------------- MODULE Spec2Model ----------------------------
(***************************************************************************)
(* A model of the vm-compiler crate: vm_parser::parse (a line-by-line pass *)
(* threading the label State, then the whole-program label check),         *)
(* vm_emitter::emit (the lowering table) and lib::compile (parse, then     *)
(* emit on success), and of the target machine the emitted text runs on.   *)
(* Spec is a compilation; SpecRun is a run of the text emitted for one     *)
(* instruction.                                                            *)
(*                                                                         *)
(* A source text is modelled as the sequence of its lines, each line       *)
(* already split into the tokens the grammar alternatives of parse() read  *)
(* (single spaces between tokens, no trailing comment).  Row r of the      *)
(* source is line r of that sequence; columns are computed from the token  *)
(* lengths exactly as lip's Location advances over them.                   *)
(***************************************************************************)
EXTENDS Integers, Sequences, FiniteSets, TLC

(***************************************************************************)
(* Bounds of the model.                                                    *)
(***************************************************************************)
\* longest source, in lines
MaxLines == 3

\* the input alphabets the lines are drawn from
Offsets == {0, 1, 2}
PushSegments == {"Constant", "Pointer"}
PopSegments == {"Local", "Constant", "Pointer"}
ArithOps == {"Add", "Eq", "Gt", "Lt"}
Names == {"A", "B"}
LocalVarCounts == {0}

\* compile()'s program_name argument
ProgramName == "Prog"

(***************************************************************************)
(* Decimal formatting, as format!("{}", n) prints a usize.                 *)
(***************************************************************************)
DigitChar == <<"0", "1", "2", "3", "4", "5", "6", "7", "8", "9">>

RECURSIVE Dec(_)
Dec(n) ==
  IF n < 10 THEN DigitChar[n + 1]
  ELSE Dec(n \div 10) \o DigitChar[(n % 10) + 1]

(***************************************************************************)
(* vm_parser.rs: data types                                                *)
(***************************************************************************)
Segment == {"Local", "Argument", "This", "That", "Constant", "Static", "Temp", "Pointer"}

ArithInstruction == {"Add", "Sub", "Neg", "Eq", "Gt", "Lt", "And", "Or", "Not"}

\* the token segment_label() reads for each Segment
SegmentToken(segment) ==
  CASE segment = "Local" -> "local"
    [] segment = "Argument" -> "argument"
    [] segment = "This" -> "this"
    [] segment = "That" -> "that"
    [] segment = "Constant" -> "constant"
    [] segment = "Static" -> "static"
    [] segment = "Temp" -> "temp"
    [] segment = "Pointer" -> "pointer"

\* the token arith_instruction() reads for each ArithInstruction
ArithToken(op) ==
  CASE op = "Add" -> "add"
    [] op = "Sub" -> "sub"
    [] op = "Neg" -> "neg"
    [] op = "Eq" -> "eq"
    [] op = "Gt" -> "gt"
    [] op = "Lt" -> "lt"
    [] op = "And" -> "and"
    [] op = "Or" -> "or"
    [] op = "Not" -> "not"

VMLocation(row, col) == [row |-> row, col |-> col]

VMLocatedString(from, to, value) == [from |-> from, to |-> to, value |-> value]

\* located(label()) after `keyword` and one space, on line `row`
LocatedLabel(keyword, name, row) ==
  VMLocatedString(VMLocation(row, Len(keyword) + 2),
                  VMLocation(row, Len(keyword) + 2 + Len(name)),
                  name)

\* the names of a set of located labels:
\* labels.into_iter().map(|l| l.value).collect::<HashSet<String>>()
LabelNames(labels) == {l.value : l \in labels}

(***************************************************************************)
(* ParseResult.  The message strings are those of the source, with its    *)
(* backquotes written as apostrophes.                                      *)
(***************************************************************************)
ParseOk(output, state) == [ok |-> TRUE, output |-> output, state |-> state]

ParseErr(message, from, to, state) ==
  [ok |-> FALSE, message |-> message, from |-> from, to |-> to, state |-> state]

(***************************************************************************)
(* The grammar alternatives of parse().  Each takes the tokens of the line *)
(* it matches, the row of the line and the State before it, and gives the  *)
(* ParseResult of the alternative.                                         *)
(***************************************************************************)
\* column just past 'push|pop <segment> <offset>'
AfterSegmentOffset(keyword, segment, offset) ==
  1 + Len(keyword) + 1 + Len(SegmentToken(segment)) + 1 + Len(Dec(offset))

push_instruction(segment, offset, row, state) ==
  ParseOk([kind |-> "Push", segment |-> segment, offset |-> offset], state)

\* pop_instruction without its Segment::Constant arm
pop_instruction_constant_unchecked(segment, offset, row, state) ==
  IF segment = "Pointer" /\ offset > 1
  THEN ParseErr("I found that " \o Dec(offset)
                  \o " is outside the allowed range of pointers.",
                VMLocation(row, 1),
                VMLocation(row, AfterSegmentOffset("pop", segment, offset)),
                state)
  ELSE ParseOk([kind |-> "Pop", segment |-> segment, offset |-> offset], state)

pop_instruction(segment, offset, row, state) ==
  LET location == VMLocation(row, AfterSegmentOffset("pop", segment, offset))
  IN CASE segment = "Constant" ->
            ParseErr("You can't store a popped value into a constant.\nTry pushing a constant onto the stack using 'push constant "
                       \o Dec(offset)
                       \o "' or consider push/pop other memory segments like 'local' and 'argument'.",
                     VMLocation(row, 1), location, state)
       [] segment = "Pointer" ->
            IF offset > 1
            THEN ParseErr("I found that " \o Dec(offset)
                            \o " is outside the allowed range of pointers.\nYou can only push/pop pointer 0 or 1. Pointer 0 refers to 'this' and pointer 1 refers to 'that'.",
                          VMLocation(row, 1), location, state)
            ELSE ParseOk([kind |-> "Pop", segment |-> segment, offset |-> offset], state)
       [] OTHER ->
            ParseOk([kind |-> "Pop", segment |-> segment, offset |-> offset], state)

arith_instruction(op, row, state) ==
  ParseOk([kind |-> "Arithmetic", op |-> op], state)

DuplicatedLabel(name) ==
  "I found a duplicated label name '" \o name \o "'. Try renaming it."

label_declaration(name, row, state) ==
  LET label == LocatedLabel("label", name, row)
  IN IF name \in LabelNames(state.defined_labels)
     THEN ParseErr(DuplicatedLabel(name), label.from, label.to, state)
     ELSE ParseOk([kind |-> "Label", name |-> name],
                  [state EXCEPT !.defined_labels = @ \cup {label}])

goto_instruction(name, row, state) ==
  LET located_label == LocatedLabel("goto", name, row)
  IN ParseOk([kind |-> "Goto", name |-> name],
             [state EXCEPT !.used_labels = @ \cup {located_label}])

if_goto_instruction(name, row, state) ==
  LET located_label == LocatedLabel("if-goto", name, row)
  IN ParseOk([kind |-> "IfGoto", name |-> name],
             [state EXCEPT !.used_labels = @ \cup {located_label}])

\* function_declaration looking up only the functions declared so far
function_declaration_own_namespace(name, local_vars, row, state) ==
  LET label == LocatedLabel("function", name, row)
      location == VMLocation(row, label.to.col + 1 + Len(Dec(local_vars)))
      functions == {l \in state.defined_labels : l.from.col = label.from.col}
  IN IF name \in LabelNames(functions)
     THEN ParseErr(DuplicatedLabel(name),
                   VMLocation(row, location.col - Len(name)), location, state)
     ELSE ParseOk([kind |-> "Function", name |-> name, local_vars |-> local_vars],
                  [state EXCEPT !.defined_labels = @ \cup {label}])

function_declaration(name, local_vars, row, state) ==
  LET label == LocatedLabel("function", name, row)
      location == VMLocation(row, label.to.col + 1 + Len(Dec(local_vars)))
  IN IF name \in LabelNames(state.defined_labels)
     THEN ParseErr(DuplicatedLabel(name),
                   VMLocation(row, location.col - Len(name)), location, state)
     ELSE ParseOk([kind |-> "Function", name |-> name, local_vars |-> local_vars],
                  [state EXCEPT !.defined_labels = @ \cup {label}])

return_statement(row, state) == ParseOk([kind |-> "Return"], state)

comment_or_spaces(row, state) == ParseOk([kind |-> "Ignored"], state)

(***************************************************************************)
(* The whole-program label check of parse(), vm_parser.rs lines 105-131.   *)
(***************************************************************************)
\* the difference of std's HashSet: the elements of a that are not in b
difference_relative(a, b) == a \ b

\* im::HashSet::difference: the symmetric difference of the two sets
difference(a, b) == (a \ b) \cup (b \ a)

label_name_difference(state) ==
  difference(LabelNames(state.defined_labels), LabelNames(state.used_labels))

\* a label check resolving a usage only against declarations on earlier rows
label_difference_backward(state) ==
  {located_label \in state.used_labels :
     ~ \E defined \in state.defined_labels :
         /\ defined.value = located_label.value
         /\ defined.from.row < located_label.from.row}

label_difference(state) ==
  {located_label \in state.used_labels :
     located_label.value \in label_name_difference(state)}

\* the orders in which iter() may yield the elements of a HashSet
IterationOrders(set) ==
  {order \in [1..Cardinality(set) -> set] :
     \A i, j \in 1..Cardinality(set) : i # j => order[i] # order[j]}

\* insert x after every element whose row is <= x's (a stable insertion)
RECURSIVE InsertByRow(_, _)
InsertByRow(sorted, x) ==
  IF sorted = <<>> THEN <<x>>
  ELSE IF x.from.row < Head(sorted).from.row THEN <<x>> \o sorted
  ELSE <<Head(sorted)>> \o InsertByRow(Tail(sorted), x)

\* the labels left in iteration order
sorted_by_key_unsorted(seq) == seq

\* itertools sorted_by_key(|located_label| located_label.from.row): a stable sort
RECURSIVE sorted_by_key(_)
sorted_by_key(seq) ==
  IF seq = <<>> THEN <<>>
  ELSE InsertByRow(sorted_by_key(SubSeq(seq, 1, Len(seq) - 1)), seq[Len(seq)])

UndefinedLabel(name) ==
  "I found an undefined label named " \o name
    \o ". Try removing it or define it somewhere."

\* the arguments of one display_error call
Diagnostic(message, from, to) == [message |-> message, from |-> from, to |-> to]

\* instructions.into_iter().filter(|i| match i { Ignored => false, _ => true })
FilterIgnored(instructions) ==
  SelectSeq(instructions, LAMBDA instruction : instruction.kind # "Ignored")

\* the Result parse() returns once the line-by-line pass has succeeded,
\* `order` being the order in which label_difference.iter() yields its labels
ParseEnd(instructions, state, order) ==
  IF label_difference(state) = {}
  THEN [tag |-> "Ok", output |-> FilterIgnored(instructions)]
  ELSE [tag |-> "Err",
        diagnostics |->
          LET sorted == sorted_by_key(order)
          IN [i \in 1..Len(sorted) |->
                Diagnostic(UndefinedLabel(sorted[i].value), sorted[i].from, sorted[i].to)]]

(***************************************************************************)
(* vm_emitter.rs.  An assembly block is the sequence of its lines; a       *)
(* multi-line template of the source is the sequence of the template's     *)
(* lines, and join("\n") of blocks is the concatenation of their lines.    *)
(***************************************************************************)
emit_push_d_to_stack == <<"@SP", "A=M", "M=D", "@SP", "M=M+1">>

emit_pop_stack_to_d == <<"@SP", "M=M-1", "A=M", "D=M">>

\* operation_str: the lines substituted for {}
emit_binary_arithmetic(operation_str) ==
  <<"@SP", "M=M-1", "A=M", "D=M", "@SP", "M=M-1", "A=M">>
    \o operation_str
    \o <<"@SP", "M=M+1">>

\* a jump target named by the operator alone
comp_success_label_by_operator(instruction_index, operation_str) == operation_str

comp_success_label(instruction_index, operation_str) ==
  operation_str \o "_" \o Dec(instruction_index)

comp_failure_label(instruction_index, operation_str) ==
  "NOT_" \o operation_str \o "_" \o Dec(instruction_index)

\* emit_comparison subtracting the other way round: y-x for x-y
emit_comparison_reversed(instruction_index, operation_str) ==
  LET success == comp_success_label(instruction_index, operation_str)
      failure == comp_failure_label(instruction_index, operation_str)
      jump_instruction == "J" \o operation_str
  IN emit_binary_arithmetic(
       <<"D=D-M",
         "@" \o success,
         "D;" \o jump_instruction,
         "@SP",
         "A=M",
         "M=0",
         "@" \o failure,
         "0;JMP",
         "(" \o success \o ")",
         "@SP",
         "A=M",
         "M=-1",
         "(" \o failure \o ")">>)

emit_comparison(instruction_index, operation_str) ==
  LET success == comp_success_label(instruction_index, operation_str)
      failure == comp_failure_label(instruction_index, operation_str)
      jump_instruction == "J" \o operation_str
  IN emit_binary_arithmetic(
       <<"D=M-D",
         "@" \o success,
         "D;" \o jump_instruction,
         "@SP",
         "A=M",
         "M=0",
         "@" \o failure,
         "0;JMP",
         "(" \o success \o ")",
         "@SP",
         "A=M",
         "M=-1",
         "(" \o failure \o ")">>)

emit_unary_arithmetic(operation_str) ==
  <<"@SP", "M=M-1", "A=M">> \o operation_str \o <<"@SP", "M=M+1">>

emit_push_fixed_segment(base_address, offset) ==
  <<"@" \o base_address, "D=M", "@" \o Dec(offset), "D=D+A", "A=D", "D=M">>
    \o emit_push_d_to_stack

\* emit_pop_fixed_segment storing D as it stands, without taking the address
\* back out of it
emit_pop_fixed_segment_stores_sum(base_address, offset) ==
  <<"@" \o base_address, "D=M", "@" \o Dec(offset), "D=D+A",
    "@SP", "M=M-1", "A=M", "D=D+M", "@SP", "A=M", "A=D-M", "M=D">>

emit_pop_fixed_segment(base_address, offset) ==
  <<"@" \o base_address, "D=M", "@" \o Dec(offset), "D=D+A",
    "@SP", "M=M-1", "A=M", "D=D+M", "@SP", "A=M", "A=D-M", "M=D-A">>

emit_push_constant_segment(number) ==
  <<"@" \o Dec(number), "D=A">> \o emit_push_d_to_stack

emit_push_static_segment(file_name, offset) ==
  <<"@" \o file_name \o "." \o Dec(offset), "D=M">> \o emit_push_d_to_stack

emit_pop_static_segment(file_name, offset) ==
  emit_pop_stack_to_d \o <<"@" \o file_name \o "." \o Dec(offset), "M=D">>

emit_push_temp_segment(offset) ==
  <<"@5", "D=A", "@" \o Dec(offset), "D=D+A", "A=D", "D=M">>
    \o emit_push_d_to_stack

emit_pop_temp_segment(offset) ==
  <<"@5", "D=A", "@" \o Dec(offset), "D=D+A",
    "@SP", "M=M-1", "A=M", "D=D+M", "@SP", "A=M", "A=D-M", "M=D-A">>

emit_push_pointer_segment(offset) ==
  <<"@" \o (IF offset = 0 THEN "THIS" ELSE "THAT"), "D=M">>
    \o emit_push_d_to_stack

emit_pop_pointer_segment(offset) ==
  <<"@SP", "M=M-1", "A=M", "D=M",
    "@" \o (IF offset = 0 THEN "THIS" ELSE "THAT"), "M=D">>

\* what the closure of emit() gives for one instruction
Block(lines) == [tag |-> "Block", lines |-> lines]

\* a panic!() arm of the match
Panic == [tag |-> "Panic"]

\* an Instruction variant the match of emit() has no arm for
NoArm == [tag |-> "NoArm"]

\* the arithmetic arm with the operands of Sub the other way round
EmitArithmetic_sub_reversed(instruction_index, op) ==
  CASE op = "Add" -> emit_binary_arithmetic(<<"M=M+D">>)
    [] op = "Sub" -> emit_binary_arithmetic(<<"M=D-M">>)
    [] op = "Eq" -> emit_comparison(instruction_index, "EQ")
    [] op = "Gt" -> emit_comparison(instruction_index, "GT")
    [] op = "Lt" -> emit_comparison(instruction_index, "LT")
    [] op = "And" -> emit_binary_arithmetic(<<"M=D&M">>)
    [] op = "Or" -> emit_binary_arithmetic(<<"M=D|M">>)
    [] op = "Neg" -> emit_unary_arithmetic(<<"M=-M">>)
    [] op = "Not" -> emit_unary_arithmetic(<<"M=!M">>)

EmitArithmetic(instruction_index, op) ==
  CASE op = "Add" -> emit_binary_arithmetic(<<"M=M+D">>)
    [] op = "Sub" -> emit_binary_arithmetic(<<"M=M-D">>)
    [] op = "Eq" -> emit_comparison(instruction_index, "EQ")
    [] op = "Gt" -> emit_comparison(instruction_index, "GT")
    [] op = "Lt" -> emit_comparison(instruction_index, "LT")
    [] op = "And" -> emit_binary_arithmetic(<<"M=D&M">>)
    [] op = "Or" -> emit_binary_arithmetic(<<"M=D|M">>)
    [] op = "Neg" -> emit_unary_arithmetic(<<"M=-M">>)
    [] op = "Not" -> emit_unary_arithmetic(<<"M=!M">>)

EmitPush(program_name, segment, offset) ==
  CASE segment = "Local" -> emit_push_fixed_segment("LCL", offset)
    [] segment = "Argument" -> emit_push_fixed_segment("ARG", offset)
    [] segment = "This" -> emit_push_fixed_segment("THIS", offset)
    [] segment = "That" -> emit_push_fixed_segment("THAT", offset)
    [] segment = "Constant" -> emit_push_constant_segment(offset)
    [] segment = "Static" -> emit_push_static_segment(program_name, offset)
    [] segment = "Temp" -> emit_push_temp_segment(offset)
    [] segment = "Pointer" -> emit_push_pointer_segment(offset)

EmitPop(program_name, segment, offset) ==
  CASE segment = "Local" -> Block(emit_pop_fixed_segment("LCL", offset))
    [] segment = "Argument" -> Block(emit_pop_fixed_segment("ARG", offset))
    [] segment = "This" -> Block(emit_pop_fixed_segment("THIS", offset))
    [] segment = "That" -> Block(emit_pop_fixed_segment("THAT", offset))
    [] segment = "Constant" -> Panic
    [] segment = "Static" -> Block(emit_pop_static_segment(program_name, offset))
    [] segment = "Temp" -> Block(emit_pop_temp_segment(offset))
    [] segment = "Pointer" -> Block(emit_pop_pointer_segment(offset))

\* the match of emit() on one (instruction_index, instruction)
EmitInstruction(program_name, instruction_index, instruction) ==
  CASE instruction.kind = "Arithmetic" ->
         Block(EmitArithmetic(instruction_index, instruction.op))
    [] instruction.kind = "Push" ->
         Block(EmitPush(program_name, instruction.segment, instruction.offset))
    [] instruction.kind = "Pop" ->
         EmitPop(program_name, instruction.segment, instruction.offset)
    [] instruction.kind = "Ignored" -> Panic
    [] OTHER -> NoArm

\* emit(): the blocks of the filtered, enumerated instructions, or the first
\* instruction in order that yields no block
emit(program_name, instructions) ==
  LET filtered == FilterIgnored(instructions)
      mapped == [i \in 1..Len(filtered) |->
                   EmitInstruction(program_name, i - 1, filtered[i])]
      failed == {i \in 1..Len(filtered) : mapped[i].tag # "Block"}
  IN IF failed = {}
     THEN [tag |-> "Text", blocks |-> [i \in 1..Len(filtered) |-> mapped[i].lines]]
     ELSE [tag |-> mapped[CHOOSE i \in failed : \A j \in failed : i <= j].tag]

\* the lines of the text blocks.join("\n")
RECURSIVE JoinBlocks(_)
JoinBlocks(blocks) ==
  IF blocks = <<>> THEN <<>> ELSE Head(blocks) \o JoinBlocks(Tail(blocks))

(***************************************************************************)
(* State of a compilation: the lines parse() has read, the State threaded  *)
(* through them, the instructions one_or_more has collected, the Result of *)
(* parse(), and what compile() got from emit().                            *)
(*                                                                         *)
(* State of a run of emitted text on the target machine: the loaded text   *)
(* (program), the data memory (ram), the address and data registers (A,    *)
(* D), the line about to execute (pc), and the conditions the run started  *)
(* from (start).                                                           *)
(***************************************************************************)
VARIABLES source, state, instructions, result, assembly,
          program, ram, A, D, pc, start

compilation == <<source, state, instructions, result, assembly>>

machine == <<program, ram, A, D, pc, start>>

vars == <<compilation, machine>>

initial_state == [defined_labels |-> {}, used_labels |-> {}]

Init ==
  /\ source = <<>>
  /\ state = initial_state
  /\ instructions = <<>>
  /\ result = [tag |-> "Pending"]
  /\ assembly = [tag |-> "None"]
  /\ program = <<>>
  /\ ram = <<>>
  /\ A = 0
  /\ D = 0
  /\ pc = 0
  /\ start = [tag |-> "None"]

\* the next line of the source is read by an alternative that gives `parsed`
ReadLine(line, parsed) ==
  /\ result.tag = "Pending"
  /\ Len(source) < MaxLines
  /\ source' = Append(source, line)
  /\ state' = parsed.state
  /\ IF parsed.ok
     THEN /\ instructions' = Append(instructions, parsed.output)
          /\ UNCHANGED result
     ELSE /\ result' = [tag |-> "Err",
                        diagnostics |->
                          <<Diagnostic(parsed.message, parsed.from, parsed.to)>>]
          /\ UNCHANGED instructions
  /\ UNCHANGED <<assembly, machine>>

Row == Len(source) + 1

PushLine ==
  \E segment \in PushSegments, offset \in Offsets :
    ReadLine([cmd |-> "push", segment |-> segment, offset |-> offset],
             push_instruction(segment, offset, Row, state))

PopLine ==
  \E segment \in PopSegments, offset \in Offsets :
    ReadLine([cmd |-> "pop", segment |-> segment, offset |-> offset],
             pop_instruction(segment, offset, Row, state))

ArithLine ==
  \E op \in ArithOps :
    ReadLine([cmd |-> ArithToken(op)], arith_instruction(op, Row, state))

LabelLine ==
  \E name \in Names :
    ReadLine([cmd |-> "label", name |-> name], label_declaration(name, Row, state))

GotoLine ==
  \E name \in Names :
    ReadLine([cmd |-> "goto", name |-> name], goto_instruction(name, Row, state))

IfGotoLine ==
  \E name \in Names :
    ReadLine([cmd |-> "if-goto", name |-> name],
             if_goto_instruction(name, Row, state))

FunctionLine ==
  \E name \in Names, local_vars \in LocalVarCounts :
    ReadLine([cmd |-> "function", name |-> name, local_vars |-> local_vars],
             function_declaration(name, local_vars, Row, state))

ReturnLine == ReadLine([cmd |-> "return"], return_statement(Row, state))

BlankLine == ReadLine([cmd |-> ""], comment_or_spaces(Row, state))

\* the input ends after at least one line: the whole-program check
EndOfInput ==
  /\ result.tag = "Pending"
  /\ Len(source) >= 1
  /\ \E order \in IterationOrders(label_difference(state)) :
       result' = ParseEnd(instructions, state, order)
  /\ UNCHANGED <<source, state, instructions, assembly, machine>>

\* compile(): parse(source).map(|instructions| emit(program_name, instructions))
Emit ==
  /\ result.tag = "Ok"
  /\ assembly.tag = "None"
  /\ assembly' = emit(ProgramName, result.output)
  /\ UNCHANGED <<source, state, instructions, result, machine>>

Next ==
  \/ PushLine
  \/ PopLine
  \/ ArithLine
  \/ LabelLine
  \/ GotoLine
  \/ IfGotoLine
  \/ FunctionLine
  \/ ReturnLine
  \/ BlankLine
  \/ EndOfInput
  \/ Emit

Spec == Init /\ [][Next]_vars

(***************************************************************************)
(* The target machine: a 16-bit word machine with an address register A,   *)
(* a data register D and a data memory addressed by A (M), running the     *)
(* assembly dialect the emitter writes: @symbol loads A, dest=comp;jump    *)
(* computes on A, D and M, stores, and jumps to the line A names, and      *)
(* (symbol) names the line that follows it.                                *)
(***************************************************************************)
Modulus == 2^16

Word(n) == n % Modulus

\* the two's-complement value of a word
Signed(w) == IF w >= Modulus \div 2 THEN w - Modulus ELSE w

RECURSIVE BitwiseAnd(_, _, _)
BitwiseAnd(x, y, bits) ==
  IF bits = 0 THEN 0
  ELSE (x % 2) * (y % 2) + 2 * BitwiseAnd(x \div 2, y \div 2, bits - 1)

RECURSIVE BitwiseOr(_, _, _)
BitwiseOr(x, y, bits) ==
  IF bits = 0 THEN 0
  ELSE (IF x % 2 = 1 \/ y % 2 = 1 THEN 1 ELSE 0)
         + 2 * BitwiseOr(x \div 2, y \div 2, bits - 1)

BitwiseNot(x) == Modulus - 1 - x

\* the data memory: the cells written so far, every other cell holding 0
Rd(mem, address) == IF address \in DOMAIN mem THEN mem[address] ELSE 0

Wr(mem, address, w) ==
  [a \in DOMAIN mem \cup {address} |-> IF a = address THEN w ELSE mem[a]]

\* the memory cell register A selects (15 address bits)
Address(a) == a % (Modulus \div 2)

\* the symbols with a fixed address
PredefinedSymbols == {"SP", "LCL", "ARG", "THIS", "THAT"}

PredefinedAddress(symbol) ==
  CASE symbol = "SP" -> 0
    [] symbol = "LCL" -> 1
    [] symbol = "ARG" -> 2
    [] symbol = "THIS" -> 3
    [] symbol = "THAT" -> 4

\* the decimal constants an @ line may hold (15 bits), as far as they are tried
ConstantValues == (0..15) \cup {2^15 - 1}

\* the symbols a (symbol) line of the loaded text may declare
JumpSymbols ==
  {prefix \o name \o "_" \o Dec(i) :
     prefix \in {"", "NOT_"}, name \in {"EQ", "GT", "LT"}, i \in 0..MaxLines}

IsDeclarationOf(line, symbol) == line = "(" \o symbol \o ")"

\* the (symbol) lines
LabelLines == {"(" \o symbol \o ")" : symbol \in JumpSymbols}

IsLabelLine(line) == line \in LabelLines

\* the value @symbol loads for a constant or a symbol with a fixed address
FixedAValues ==
  [line \in {"@" \o Dec(n) : n \in ConstantValues}
              \cup {"@" \o symbol : symbol \in PredefinedSymbols}
   |-> IF \E n \in ConstantValues : line = "@" \o Dec(n)
       THEN CHOOSE n \in ConstantValues : line = "@" \o Dec(n)
       ELSE PredefinedAddress(CHOOSE symbol \in PredefinedSymbols : line = "@" \o symbol)]

\* the @symbol lines naming a jump target
JumpALines == {"@" \o symbol : symbol \in JumpSymbols}

\* the lines of the loaded text declaring the symbol that `line` loads
DeclarationLines(text, line) ==
  {n \in 1..Len(text) :
     \E symbol \in JumpSymbols :
       line = "@" \o symbol /\ IsDeclarationOf(text[n], symbol)}

IsAInstruction(text, line) ==
  \/ line \in DOMAIN FixedAValues
  \/ line \in JumpALines /\ DeclarationLines(text, line) # {}

\* the value @symbol loads: a constant, a fixed address, or the line of the
\* loaded text that declares the symbol
AValue(text, line) ==
  IF line \in DOMAIN FixedAValues
  THEN FixedAValues[line]
  ELSE CHOOSE n \in DeclarationLines(text, line) : TRUE

Dests == {"", "M", "D", "MD", "A", "AM", "AD", "AMD"}

Comps ==
  {"0", "1", "-1", "D", "A", "M", "!D", "!A", "!M", "-D", "-A", "-M",
   "D+1", "A+1", "M+1", "D-1", "A-1", "M-1",
   "D+A", "D+M", "M+D", "D-A", "D-M", "A-D", "M-D",
   "D&A", "D&M", "D|A", "D|M"}

Jumps == {"", "JGT", "JEQ", "JGE", "JLT", "JNE", "JLE", "JMP"}

CFormat(dest, comp, jump) ==
  (IF dest = "" THEN "" ELSE dest \o "=") \o comp
     \o (IF jump = "" THEN "" ELSE ";" \o jump)

CFields == Dests \X Comps \X Jumps

\* the dest=comp;jump lines
CLines == {CFormat(fields[1], fields[2], fields[3]) : fields \in CFields}

IsCInstruction(line) == line \in CLines

\* the fields of each dest=comp;jump line
DecodeTable ==
  [line \in CLines |->
     CHOOSE fields \in CFields : CFormat(fields[1], fields[2], fields[3]) = line]

Decode(line) == DecodeTable[line]

\* the word comp computes from the registers a, d and the selected cell m
Compute(comp, a, d, m) ==
  CASE comp = "0" -> 0
    [] comp = "1" -> 1
    [] comp = "-1" -> Word(-1)
    [] comp = "D" -> d
    [] comp = "A" -> a
    [] comp = "M" -> m
    [] comp = "!D" -> BitwiseNot(d)
    [] comp = "!A" -> BitwiseNot(a)
    [] comp = "!M" -> BitwiseNot(m)
    [] comp = "-D" -> Word(0 - d)
    [] comp = "-A" -> Word(0 - a)
    [] comp = "-M" -> Word(0 - m)
    [] comp = "D+1" -> Word(d + 1)
    [] comp = "A+1" -> Word(a + 1)
    [] comp = "M+1" -> Word(m + 1)
    [] comp = "D-1" -> Word(d - 1)
    [] comp = "A-1" -> Word(a - 1)
    [] comp = "M-1" -> Word(m - 1)
    [] comp = "D+A" -> Word(d + a)
    [] comp = "D+M" -> Word(d + m)
    [] comp = "M+D" -> Word(m + d)
    [] comp = "D-A" -> Word(d - a)
    [] comp = "D-M" -> Word(d - m)
    [] comp = "A-D" -> Word(a - d)
    [] comp = "M-D" -> Word(m - d)
    [] comp = "D&A" -> BitwiseAnd(d, a, 16)
    [] comp = "D&M" -> BitwiseAnd(d, m, 16)
    [] comp = "D|A" -> BitwiseOr(d, a, 16)
    [] comp = "D|M" -> BitwiseOr(d, m, 16)

\* whether jump is taken on the computed word w
Taken(jump, w) ==
  CASE jump = "" -> FALSE
    [] jump = "JGT" -> Signed(w) > 0
    [] jump = "JEQ" -> Signed(w) = 0
    [] jump = "JGE" -> Signed(w) >= 0
    [] jump = "JLT" -> Signed(w) < 0
    [] jump = "JNE" -> Signed(w) # 0
    [] jump = "JLE" -> Signed(w) <= 0
    [] jump = "JMP" -> TRUE

\* the registers and memory dest stores into
DestTargets(dest) ==
  CASE dest = "" -> {}
    [] dest = "M" -> {"M"}
    [] dest = "D" -> {"D"}
    [] dest = "MD" -> {"M", "D"}
    [] dest = "A" -> {"A"}
    [] dest = "AM" -> {"A", "M"}
    [] dest = "AD" -> {"A", "D"}
    [] dest = "AMD" -> {"A", "M", "D"}

Stores(dest, target) == target \in DestTargets(dest)

Running == pc \in 1..Len(program)

Halted == program # <<>> /\ pc = Len(program) + 1

\* @symbol
AInstruction ==
  /\ Running
  /\ IsAInstruction(program, program[pc])
  /\ A' = AValue(program, program[pc])
  /\ pc' = pc + 1
  /\ UNCHANGED <<compilation, program, ram, D, start>>

\* dest=comp;jump
CInstruction ==
  /\ Running
  /\ IsCInstruction(program[pc])
  /\ LET fields == Decode(program[pc])
         w == Compute(fields[2], A, D, Rd(ram, Address(A)))
     IN /\ A' = IF Stores(fields[1], "A") THEN w ELSE A
        /\ D' = IF Stores(fields[1], "D") THEN w ELSE D
        /\ ram' = IF Stores(fields[1], "M") THEN Wr(ram, Address(A), w) ELSE ram
        /\ pc' = IF Taken(fields[3], w) THEN A ELSE pc + 1
  /\ UNCHANGED <<compilation, program, start>>

\* (symbol): names the next line, executes nothing
LabelDeclaration ==
  /\ Running
  /\ IsLabelLine(program[pc])
  /\ pc' = pc + 1
  /\ UNCHANGED <<compilation, program, ram, A, D, start>>

(***************************************************************************)
(* A run of the text compile() emits for one instruction: an arithmetic    *)
(* instruction, from a stack holding x below y on top, or a pop into a     *)
(* fixed segment, from a stack holding v on top.                           *)
(***************************************************************************)
\* the instructions run
RunOps == {"Add", "Sub", "And", "Or", "Eq", "Gt", "Lt"}

\* the operand words tried for x and y
WordSamples == {0, 1, 2, 21845, 32767, 32768, 43690, 65535}

\* the values of SP tried
StackPointers == {259, 2047}

\* what D holds when the run starts
DataSamples == {0, 12345}

RunArithmetic ==
  \E op \in RunOps, sp \in StackPointers, x \in WordSamples, y \in WordSamples,
     d \in DataSamples :
    LET instruction == [kind |-> "Arithmetic", op |-> op]
        memory == [a \in {0, sp - 3, sp - 2, sp - 1} |->
                     CASE a = 0 -> sp
                       [] a = sp - 3 -> 4660
                       [] a = sp - 2 -> x
                       [] a = sp - 1 -> y]
    IN /\ source = <<[cmd |-> ArithToken(op)]>>
       /\ state = initial_state
       /\ instructions = <<instruction>>
       /\ result = [tag |-> "Ok", output |-> <<instruction>>]
       /\ assembly = emit(ProgramName, result.output)
       /\ program = JoinBlocks(assembly.blocks)
       /\ ram = memory
       /\ A = 0
       /\ D = d
       /\ pc = 1
       /\ start = [tag |-> "Run", op |-> op, sp |-> sp, x |-> x, y |-> y,
                   ram |-> memory]

\* the segments popped into
RunPopSegments == {"Local", "Argument", "This", "That"}

\* the offsets tried
RunPopOffsets == {0, 1, 7, 2^15 - 1}

\* the values tried for the segment's base register
BaseSamples == {0, 1, 258, 300, 2^15 - 1, 2^15, 2^16 - 1}

\* the register holding the base of each fixed segment (LCL, ARG, THIS, THAT)
BaseRegister(segment) ==
  CASE segment = "Local" -> 1
    [] segment = "Argument" -> 2
    [] segment = "This" -> 3
    [] segment = "That" -> 4

\* the cell that address base+offset selects
TargetCell(base, offset) == (base + offset) % 2^15

RunPop ==
  \E segment \in RunPopSegments, offset \in RunPopOffsets, base \in BaseSamples,
     v \in WordSamples, sp \in StackPointers, d \in DataSamples :
    LET instruction == [kind |-> "Pop", segment |-> segment, offset |-> offset]
        memory == [a \in {0, 1, 2, 3, 4, sp - 2, sp - 1, TargetCell(base, offset)} |->
                     IF a = 0 THEN sp
                     ELSE IF a = BaseRegister(segment) THEN base
                     ELSE IF a \in 1..4 THEN 1000 + 100 * a
                     ELSE IF a = sp - 1 THEN v
                     ELSE IF a = sp - 2 THEN 4660
                     ELSE 22136]
    IN /\ source = <<[cmd |-> "pop", segment |-> segment, offset |-> offset]>>
       /\ state = initial_state
       /\ instructions = <<instruction>>
       /\ result = [tag |-> "Ok", output |-> <<instruction>>]
       /\ assembly = emit(ProgramName, result.output)
       /\ program = JoinBlocks(assembly.blocks)
       /\ ram = memory
       /\ A = 0
       /\ D = d
       /\ pc = 1
       /\ start = [tag |-> "RunPop", segment |-> segment, offset |-> offset,
                   base |-> base, v |-> v, sp |-> sp, ram |-> memory]

RunInit == RunArithmetic \/ RunPop

RunNext ==
  \/ AInstruction
  \/ CInstruction
  \/ LabelDeclaration

SpecRun == RunInit /\ [][RunNext]_vars

(***************************************************************************)
(* Vocabulary of the properties: what the source text says, read off the   *)
(* lines themselves and not off the parser's State.                        *)
(***************************************************************************)
IsDeclaration(line) == line.cmd \in {"label", "function"}

IsUsage(line) == line.cmd \in {"goto", "if-goto"}

IsPointerOutOfRange(line) ==
  /\ line.cmd \in {"push", "pop"}
  /\ line.segment = "Pointer"
  /\ line.offset \notin {0, 1}

IsPopConstant(line) == line.cmd = "pop" /\ line.segment = "Constant"

\* the rows of src holding a declaration, resp. a usage, of name
DeclarationRows(src, name) ==
  {i \in 1..Len(src) : IsDeclaration(src[i]) /\ src[i].name = name}

UsageRows(src, name) ==
  {i \in 1..Len(src) : IsUsage(src[i]) /\ src[i].name = name}

\* the rows of src holding a goto or if-goto of a name src declares nowhere
UndefinedUsageRows(src) ==
  {i \in 1..Len(src) : IsUsage(src[i]) /\ DeclarationRows(src, src[i].name) = {}}

\* parse() has returned
Returned == result.tag # "Pending"

\* every line read was accepted by its alternative
LinePassSucceeded == Len(instructions) = Len(source)

\* the diagnostics of an Err result that cite row i
DiagnosticsAt(i) ==
  {k \in 1..Len(result.diagnostics) : result.diagnostics[k].from.row = i}

(***************************************************************************)
(* C1.  parse rejects every push pointer n and every pop pointer n with n  *)
(* outside {0,1}, wherever it occurs: the result of a parse that read such *)
(* a line is an error, and no Ok result holds a Push or Pop on Pointer     *)
(* with an offset above 1.  (Stated as the claim; push_instruction makes   *)
(* no such check.)                                                         *)
(***************************************************************************)
C1_PointerOutOfRangeRejected ==
  /\ Returned =>
       \A i \in 1..Len(source) :
         IsPointerOutOfRange(source[i]) => result.tag = "Err"
  /\ result.tag = "Ok" =>
       \A k \in 1..Len(result.output) :
         ~ /\ result.output[k].kind \in {"Push", "Pop"}
           /\ result.output[k].segment = "Pointer"
           /\ result.output[k].offset > 1

(***************************************************************************)
(* C2.  emit is total and order-preserving over what parse returns: once   *)
(* compile has called emit on an Ok result, emit has returned text with    *)
(* one block per instruction, the i-th block being the lowering of the     *)
(* i-th instruction.  (Stated as the claim; the match of emit has no arm   *)
(* for Label, Goto, IfGoto, Function and Return.)                          *)
(***************************************************************************)
C2_EmitTotal ==
  assembly.tag # "None" =>
    /\ assembly.tag = "Text"
    /\ Len(assembly.blocks) = Len(result.output)
    /\ \A i \in 1..Len(result.output) :
         Block(assembly.blocks[i])
           = EmitInstruction(ProgramName, i - 1, result.output[i])

(***************************************************************************)
(* C3.  When the program declares a label that no goto or if-goto          *)
(* references and the line pass succeeds, parse fails and its diagnostics  *)
(* hold exactly one unused-label diagnostic citing that declaration.       *)
(* (Stated as the claim and as test_parser expects; parse never builds an  *)
(* unused-label diagnostic.)                                               *)
(***************************************************************************)
UnusedLabel(name) ==
  "I found an unused label named " \o name
    \o ". Try removing it or use it somewhere."

C3_UnusedLabelReported ==
  (Returned /\ LinePassSucceeded) =>
    \A i \in 1..Len(source) :
      (source[i].cmd = "label" /\ UsageRows(source, source[i].name) = {}) =>
        /\ result.tag = "Err"
        /\ Cardinality({k \in DiagnosticsAt(i) :
             result.diagnostics[k].message = UnusedLabel(source[i].name)}) = 1

(***************************************************************************)
(* C4.  After a successful line pass, parse returns an error exactly when  *)
(* some goto or if-goto names a label declared nowhere, and then its       *)
(* diagnostics are one undefined-label diagnostic per such usage site,     *)
(* citing the span of the name, and nothing else.                          *)
(***************************************************************************)
C4_UndefinedPerUsage ==
  (Returned /\ LinePassSucceeded) =>
    IF UndefinedUsageRows(source) = {}
    THEN result.tag = "Ok"
    ELSE /\ result.tag = "Err"
         /\ Len(result.diagnostics) = Cardinality(UndefinedUsageRows(source))
         /\ \A i \in UndefinedUsageRows(source) :
              \E k \in DiagnosticsAt(i) :
                /\ result.diagnostics[k].message = UndefinedLabel(source[i].name)
                /\ result.diagnostics[k].to.col - result.diagnostics[k].from.col
                     = Len(source[i].name)

\* two usages of one undefined name: two diagnostics with the same message
C4_Witness ==
  /\ result.tag = "Err"
  /\ LinePassSucceeded
  /\ Len(result.diagnostics) = 2
  /\ result.diagnostics[1].message = result.diagnostics[2].message
  /\ result.diagnostics[1].from.row # result.diagnostics[2].from.row

(***************************************************************************)
(* C5.  Forward references are legal: no diagnostic cites a usage whose    *)
(* name is declared on a later line, and a program whose line pass         *)
(* succeeds, in which every referenced name is declared and every declared *)
(* name is referenced, is accepted.                                        *)
(***************************************************************************)
C5_ForwardReferences ==
  (Returned /\ LinePassSucceeded) =>
    /\ result.tag = "Err" =>
         \A k \in 1..Len(result.diagnostics) :
           LET i == result.diagnostics[k].from.row
           IN \A j \in DeclarationRows(source, source[i].name) : j < i
    /\ ( /\ \A i \in 1..Len(source) :
              IsUsage(source[i]) => DeclarationRows(source, source[i].name) # {}
         /\ \A i \in 1..Len(source) :
              IsDeclaration(source[i]) => UsageRows(source, source[i].name) # {} )
       => result.tag = "Ok"

\* a goto on an earlier row than the label it names, accepted
C5_Witness ==
  /\ result.tag = "Ok"
  /\ \E i, j \in 1..Len(source) :
       /\ i < j
       /\ IsUsage(source[i])
       /\ source[j].cmd = "label"
       /\ source[j].name = source[i].name

(***************************************************************************)
(* C6.  label and function declarations share one namespace.  A step that  *)
(* reads a label or function line whose name an earlier label or function  *)
(* line declared ends the parse with the duplicate-name error at that line *)
(* and leaves defined_labels as it was; a step that reads the first        *)
(* declaration of a name accepts it and adds it to defined_labels.         *)
(***************************************************************************)
C6_Step ==
  LET line == source'[Len(source')]
  IN (Len(source') = Len(source) + 1 /\ IsDeclaration(line)) =>
       IF DeclarationRows(source, line.name) # {}
       THEN /\ result'.tag = "Err"
            /\ Len(result'.diagnostics) = 1
            /\ result'.diagnostics[1].message = DuplicatedLabel(line.name)
            /\ result'.diagnostics[1].from.row = Len(source')
            /\ state'.defined_labels = state.defined_labels
            /\ instructions' = instructions
       ELSE /\ result'.tag = "Pending"
            /\ Len(instructions') = Len(instructions) + 1
            /\ LabelNames(state'.defined_labels)
                 = LabelNames(state.defined_labels) \cup {line.name}
            /\ Cardinality(state'.defined_labels)
                 = Cardinality(state.defined_labels) + 1

C7_PopConstantRejected ==
  /\ \A i \in 1..Len(source) :
       IsPopConstant(source[i]) =>
         /\ result.tag = "Err"
         /\ i = Len(source)
         /\ result.diagnostics[1].from.row = i
  /\ result.tag = "Ok" =>
       \A k \in 1..Len(result.output) :
         ~ (result.output[k].kind = "Pop" /\ result.output[k].segment = "Constant")
  /\ assembly.tag # "Panic"

\* a pop constant below the first line, rejected
C7_Witness ==
  /\ Len(source) >= 2
  /\ IsPopConstant(source[Len(source)])
  /\ result.tag = "Err"

(***************************************************************************)
(* C8.  The text emitted for a program with k Eq/Gt/Lt instructions        *)
(* declares k pairs of jump targets <OP>_<i> / NOT_<OP>_<i>: the block of  *)
(* each comparison declares the pair of its operator for one index i, the  *)
(* text holds 2k such declarations, no two of them the same symbol, and i  *)
(* strictly increases from each comparison to the next in program order.   *)
(***************************************************************************)
ComparisonName(op) ==
  CASE op = "Eq" -> "EQ" [] op = "Gt" -> "GT" [] op = "Lt" -> "LT"

IsComparison(instruction) ==
  instruction.kind = "Arithmetic" /\ instruction.op \in {"Eq", "Gt", "Lt"}

\* the line declaring the jump target <OP>_<i>, resp. NOT_<OP>_<i>
TargetLine(name, i) == "(" \o name \o "_" \o Dec(i) \o ")"

NotTargetLine(name, i) == "(NOT_" \o name \o "_" \o Dec(i) \o ")"

\* every declaration of a comparison jump target, under any operator and index
TargetLines ==
  UNION {{TargetLine(name, i), NotTargetLine(name, i)} :
           name \in {"EQ", "GT", "LT"}, i \in 0..MaxLines}

SeqRange(seq) == {seq[n] : n \in 1..Len(seq)}

\* the indices i whose pair the block of the q-th instruction declares
PairIndices(q) ==
  {i \in 0..MaxLines :
     {TargetLine(ComparisonName(result.output[q].op), i),
      NotTargetLine(ComparisonName(result.output[q].op), i)}
       \subseteq SeqRange(assembly.blocks[q])}

C8_DistinctJumpTargets ==
  assembly.tag = "Text" =>
    LET text == JoinBlocks(assembly.blocks)
        comparisons == {q \in 1..Len(result.output) : IsComparison(result.output[q])}
        declarations == {n \in 1..Len(text) : text[n] \in TargetLines}
    IN /\ Cardinality(declarations) = 2 * Cardinality(comparisons)
       /\ \A m, n \in declarations : m # n => text[m] # text[n]
       /\ \A q \in comparisons : Cardinality(PairIndices(q)) = 1
       /\ \A q, r \in comparisons :
            q < r => \A i \in PairIndices(q), j \in PairIndices(r) : i < j

\* two comparisons under the same operator with another instruction between
C8_Witness ==
  /\ assembly.tag = "Text"
  /\ Len(result.output) = 3
  /\ IsComparison(result.output[1])
  /\ ~ IsComparison(result.output[2])
  /\ result.output[3] = result.output[1]

(***************************************************************************)
(* C9.  The diagnostics of an error are in ascending order of the row they *)
(* cite, and what parse returns at the end of the input does not depend on *)
(* the order in which the set of offending labels is iterated.             *)
(***************************************************************************)
C9_SortedByRow ==
  /\ result.tag = "Err" =>
       \A i, j \in 1..Len(result.diagnostics) :
         i < j => result.diagnostics[i].from.row < result.diagnostics[j].from.row
  /\ result.tag = "Pending" =>
       \A order1, order2 \in IterationOrders(label_difference(state)) :
         ParseEnd(instructions, state, order1) = ParseEnd(instructions, state, order2)

\* an error of three diagnostics, from a goto and an if-goto among them
C9_Witness ==
  /\ result.tag = "Err"
  /\ Len(result.diagnostics) = 3
  /\ \E i, j \in 1..Len(source) :
       source[i].cmd = "goto" /\ source[j].cmd = "if-goto"

(***************************************************************************)
(* C10.  Run with y in the top stack cell (address SP-1) and x in the cell *)
(* below, the block emitted for Add, Sub, And, Or runs to its end, every   *)
(* line of it an instruction of the machine, and ends with SP one lower,   *)
(* the new top cell holding x+y, x-y, x&y, x|y (modulo 2^16), and every    *)
(* cell below x other than SP unchanged.                                   *)
(***************************************************************************)
\* the positions of the 1 bits of a word
BitsOf(w) == {i \in 0..15 : (w \div 2^i) % 2 = 1}

IsBinaryArithmetic(op) == op \in {"Add", "Sub", "And", "Or"}

C10_BinaryArithmetic ==
  (start.tag = "Run" /\ IsBinaryArithmetic(start.op)) =>
    /\ pc \in 1..(Len(program) + 1)
    /\ Running =>
         \/ IsAInstruction(program, program[pc])
         \/ IsCInstruction(program[pc])
    /\ Halted =>
         LET top == Rd(ram, start.sp - 2)
         IN /\ Rd(ram, 0) = start.sp - 1
            /\ top \in 0..(2^16 - 1)
            /\ start.op = "Add" => top = (start.x + start.y) % 2^16
            /\ start.op = "Sub" => top = (start.x - start.y) % 2^16
            /\ start.op = "And" => BitsOf(top) = BitsOf(start.x) \cap BitsOf(start.y)
            /\ start.op = "Or" => BitsOf(top) = BitsOf(start.x) \cup BitsOf(start.y)
            /\ \A a \in DOMAIN ram \cup DOMAIN start.ram :
                 (a # 0 /\ a < start.sp - 2) => Rd(ram, a) = Rd(start.ram, a)

\* a subtraction x-y with x < y, which wraps, run to the end of its block
C10_Witness ==
  /\ start.tag = "Run"
  /\ Halted
  /\ start.op = "Sub"
  /\ start.x < start.y
  /\ Rd(ram, start.sp - 2) = start.x - start.y + 2^16

(***************************************************************************)
(* C11.  Run with y in the top stack cell and x in the cell below, the     *)
(* block emitted for Eq, Gt, Lt runs to its end, every line of it an       *)
(* instruction or a jump target of the machine, and ends with SP one lower *)
(* and the new top cell holding all-ones when the 16-bit difference x-y is *)
(* zero (Eq), positive (Gt) or negative (Lt) as a two's-complement word,   *)
(* and all-zeros otherwise.                                                *)
(***************************************************************************)
IsComparisonOp(op) == op \in {"Eq", "Gt", "Lt"}

\* the difference x-y as a 16-bit word
Difference16(x, y) == (x - y) % 2^16

\* whether the word satisfies the comparison: 0, 1..2^15-1, or 2^15..2^16-1
Satisfies(op, w) ==
  CASE op = "Eq" -> w = 0
    [] op = "Gt" -> w \in 1..(2^15 - 1)
    [] op = "Lt" -> w \in (2^15)..(2^16 - 1)

C11_Comparison ==
  (start.tag = "Run" /\ IsComparisonOp(start.op)) =>
    /\ pc \in 1..(Len(program) + 1)
    /\ Running =>
         \/ IsAInstruction(program, program[pc])
         \/ IsCInstruction(program[pc])
         \/ IsLabelLine(program[pc])
    /\ Halted =>
         /\ Rd(ram, 0) = start.sp - 1
         /\ Rd(ram, start.sp - 2)
              = IF Satisfies(start.op, Difference16(start.x, start.y))
                THEN 2^16 - 1
                ELSE 0

\* the taken branch of Lt on a difference that overflows: x = 32767 is above
\* y = -1, and x-y = 32768 is negative as a 16-bit word
C11_Witness ==
  /\ start.tag = "Run"
  /\ Halted
  /\ start.op = "Lt"
  /\ start.x = 2^15 - 1
  /\ start.y = 2^16 - 1
  /\ Rd(ram, start.sp - 2) = 2^16 - 1

=============================================================================
